---- MODULE Spec2Model ----
(***************************************************************************)
(* Asset-resolution core of install-github-release-binary:                 *)
(*   platform.ts  target triples / duples and stripTargetTriple            *)
(*   fetch.ts     semanticVersionTagReducer, findExactSemanticVersionTag,   *)
(*                findMatchingReleaseAssetMetadata                          *)
(*   parse.ts     parseTargetReleases                                       *)
(*   main.ts      the resolutions of all targets under Promise.all          *)
(*                                                                         *)
(* A JavaScript string is modelled as a sequence of pieces whose           *)
(* concatenation is the string.  Every string that the code compares,      *)
(* tests for a suffix or rewrites (asset labels and names, platform         *)
(* identifiers, tag names) is spelled one character per piece, so that     *)
(* ===, endsWith and replace are literal.  The fixed text of a template     *)
(* literal in an error message is kept as one piece per fragment.          *)
(***************************************************************************)
EXTENDS Integers, Sequences, FiniteSets, TLC

VARIABLES
    pc,        \* position of the operation under way
    stripIn,   \* stripTargetTriple: the argument
    stripOut,  \* stripTargetTriple: the returned Option<string>
    call,      \* findMatchingReleaseAssetMetadata: the arguments
    ret,       \* findMatchingReleaseAssetMetadata: the record returned or the error thrown
    target,    \* findExactSemanticVersionTag: slug and target, with the repository's tags
    pages,     \* the pages of the tag listing not requested yet
    page,      \* the tags of the page under iteration not fed to the reducer yet
    requested, \* how many pages of the tag listing were requested
    tagReducer, \* the reducer's closure: versionsBySha and givenTagSha
    resolved,  \* findExactSemanticVersionTag: the tag returned or the error thrown
    machine,   \* getTargetTriple, getTargetDuple, getTargetDupleUnderscore: arch and platform
    identified, \* what each of the three returned or threw
    input,     \* parseTargetReleases: the text of the targets input
    parsed,    \* parseTargetReleases: the Either returned
    runs,      \* main: the resolutions started by Promise.all, one per target
    job,       \* installGitHubReleaseBinary: the arguments and what the call finds outside
    locals,    \* installGitHubReleaseBinary: the constants of the call computed so far
    effects,   \* installGitHubReleaseBinary: the file system and PATH operations made so far
    outcome,   \* installGitHubReleaseBinary: returned, or the error thrown
    disk       \* installGitHubReleaseBinary: the files of the directories the call works in

matcherVars == <<call, ret>>
stripVars == <<stripIn, stripOut>>
resolverVars == <<target, pages, page, requested, tagReducer, resolved>>
platformVars == <<machine, identified>>
parserVars == <<input, parsed>>
installerVars == <<runs>>
binaryVars == <<job, locals, effects, outcome, disk>>
vars == <<pc, stripIn, stripOut, call, ret, target, pages, page, requested, tagReducer, resolved,
          machine, identified, input, parsed, runs, job, locals, effects, outcome, disk>>

-----------------------------------------------------------------------------
(* option.ts *)

none == [tag |-> "none"]

some(v) == [tag |-> "some", value |-> v]

isSome(o) == o.tag = "some"

\* the outcome of a call: a value returned, or an error thrown with its message
returned(v) == [ok |-> TRUE, value |-> v]
thrown(kind, message) == [ok |-> FALSE, error |-> kind, message |-> message]

-----------------------------------------------------------------------------
(* String primitives of the JavaScript runtime *)

\* String.prototype.endsWith
EndsWith(s, suffix) ==
    /\ Len(suffix) <= Len(s)
    /\ SubSeq(s, Len(s) - Len(suffix) + 1, Len(s)) = suffix

\* s without its last n pieces
DropLast(s, n) == SubSeq(s, 1, Len(s) - n)

\* s.replace(new RegExp(`${suffix}$`), "") for a literal suffix
ReplaceSuffix(s, suffix) ==
    IF EndsWith(s, suffix) THEN DropLast(s, Len(suffix)) ELSE s

\* the elements of a sequence
Range(list) == {list[i] : i \in 1..Len(list)}

-----------------------------------------------------------------------------
(* platform.ts *)

HY == <<"-">>
US == <<"_">>
AARCH64 == <<"a", "a", "r", "c", "h", "6", "4">>
X86_64 == <<"x", "8", "6", "_", "6", "4">>
APPLE == <<"a", "p", "p", "l", "e">>
UNKNOWN == <<"u", "n", "k", "n", "o", "w", "n">>
DARWIN == <<"d", "a", "r", "w", "i", "n">>
LINUX == <<"l", "i", "n", "u", "x">>
MUSL == <<"m", "u", "s", "l">>
AMD64 == <<"a", "m", "d", "6", "4">>
ARM64 == <<"a", "r", "m", "6", "4">>
X64 == <<"x", "6", "4">>

ALL_TARGET_TRIPLES ==
    << AARCH64 \o HY \o APPLE \o HY \o DARWIN,
       AARCH64 \o HY \o UNKNOWN \o HY \o LINUX \o HY \o MUSL,
       X86_64 \o HY \o APPLE \o HY \o DARWIN,
       X86_64 \o HY \o UNKNOWN \o HY \o LINUX \o HY \o MUSL >>

TARGET_DUPLES ==
    << LINUX \o HY \o AMD64,
       LINUX \o HY \o ARM64,
       DARWIN \o HY \o AMD64,
       DARWIN \o HY \o ARM64,
       LINUX \o US \o AMD64,
       LINUX \o US \o ARM64,
       DARWIN \o US \o AMD64,
       DARWIN \o US \o ARM64 >>

architectureLabel(arch) ==
    IF arch = ARM64 THEN returned(AARCH64)
    ELSE IF arch = X64 THEN returned(X86_64)
    ELSE thrown("Error",
             <<"Unsupported architecture ">> \o arch \o
             <<" -- only aarch64 and x86_64 currently supported">>)

platformLabel(platform) ==
    IF platform = DARWIN THEN returned([vendor |-> APPLE, operatingSystem |-> DARWIN])
    ELSE IF platform = LINUX
    THEN returned([vendor |-> UNKNOWN, operatingSystem |-> LINUX \o HY \o MUSL])
    ELSE thrown("Error",
             <<"Unsupported platform ">> \o platform \o
             <<" -- only darwin and linux currently supported">>)

getTargetTriple(arch, platform) ==
    LET architecture == architectureLabel(arch)
        label == platformLabel(platform)
    IN  IF ~architecture.ok THEN architecture
        ELSE IF ~label.ok THEN label
        ELSE returned(architecture.value \o HY \o label.value.vendor \o HY \o
                      label.value.operatingSystem)

getTargetDuple(arch, platform) ==
    IF platform = DARWIN
    THEN returned(IF arch = ARM64 THEN DARWIN \o HY \o ARM64 ELSE DARWIN \o HY \o AMD64)
    ELSE IF platform = LINUX
    THEN returned(IF arch = ARM64 THEN LINUX \o HY \o ARM64 ELSE LINUX \o HY \o AMD64)
    ELSE thrown("Error",
             <<"Unsupported platform ">> \o platform \o <<" for target duple conversion">>)

getTargetDupleUnderscore(arch, platform) ==
    IF platform = DARWIN
    THEN returned(IF arch = ARM64 THEN DARWIN \o US \o ARM64 ELSE DARWIN \o US \o AMD64)
    ELSE IF platform = LINUX
    THEN returned(IF arch = ARM64 THEN LINUX \o US \o ARM64 ELSE LINUX \o US \o AMD64)
    ELSE thrown("Error",
             <<"Unsupported platform ">> \o platform \o <<" for target duple conversion">>)

\* (value, targetTriple) => value.replace(new RegExp(`-${targetTriple}$`), "")
StripTripleStep(value, targetTriple) == ReplaceSuffix(value, HY \o targetTriple)

\* (value, duple) => value.replace(new RegExp(`[-_]${duple}$`), "")
StripDupleStep(value, duple) ==
    IF EndsWith(value, HY \o duple) \/ EndsWith(value, US \o duple)
    THEN DropLast(value, Len(duple) + 1)
    ELSE value

\* ALL_TARGET_TRIPLES.reduce(..., value), from the i-th triple on
RECURSIVE ReduceTriples(_, _)
ReduceTriples(value, i) ==
    IF i > Len(ALL_TARGET_TRIPLES) THEN value
    ELSE ReduceTriples(StripTripleStep(value, ALL_TARGET_TRIPLES[i]), i + 1)

\* TARGET_DUPLES.reduce(..., value), from the i-th duple on
RECURSIVE ReduceDuples(_, _)
ReduceDuples(value, i) ==
    IF i > Len(TARGET_DUPLES) THEN value
    ELSE ReduceDuples(StripDupleStep(value, TARGET_DUPLES[i]), i + 1)

\* The first two guards of stripTargetTriple: nothing else remains
MutIsWholeIdentifier(value) == value \in Range(ALL_TARGET_TRIPLES)

IsWholeIdentifier(value) ==
    \/ value \in Range(ALL_TARGET_TRIPLES)
    \/ value \in Range(TARGET_DUPLES)

stripTargetTriple(value) ==
    IF IsWholeIdentifier(value) THEN none
    ELSE LET strippedTriple == ReduceTriples(value, 1)
             strippedDuple == ReduceDuples(value, 1)
         IN  IF strippedTriple # value THEN some(strippedTriple)
             ELSE IF strippedDuple # value THEN some(strippedDuple)
             ELSE some(value)

-----------------------------------------------------------------------------
(* fetch.ts: findMatchingReleaseAssetMetadata *)

\* JavaScript truthiness of an optional string argument: undefined and "" are falsy
Truthy(optional) == isSome(optional) /\ optional.value # << >>

\* the decimal digits of a number, as a template literal prints it
Digit(d) == <<"0", "1", "2", "3", "4", "5", "6", "7", "8", "9">>[d + 1]
RECURSIVE NumberToString(_)
NumberToString(n) ==
    IF n < 10 THEN <<Digit(n)>> ELSE NumberToString(n \div 10) \o <<Digit(n % 10)>>

\* Array.prototype.join
RECURSIVE Join(_, _)
Join(list, separator) ==
    IF Len(list) = 0 THEN << >>
    ELSE IF Len(list) = 1 THEN list[1]
    ELSE list[1] \o separator \o Join(Tail(list), separator)

\* Array.prototype.find: the least of the positions whose element passes, 0 for undefined
FirstOf(positions) ==
    IF positions = {} THEN 0 ELSE CHOOSE i \in positions : \A j \in positions : i <= j

\* name.replace(/\.[^.]+$/, ''): drop a final "." + extension
LastDot(name) ==
    IF \E i \in 1..Len(name) : name[i] = "."
    THEN CHOOSE i \in 1..Len(name) :
             name[i] = "." /\ \A j \in (i + 1)..Len(name) : name[j] # "."
    ELSE 0

filenameWithoutExt(name) ==
    LET dot == LastDot(name)
    IN  IF dot > 0 /\ dot < Len(name) THEN SubSeq(name, 1, dot - 1) ELSE name

\* asset.name || ''
NameOrEmpty(asset) == IF isSome(asset.name) THEN asset.name.value ELSE << >>

\* `${slug.owner}/${slug.repository}@${tag}`
ReleaseText(slug, tag) == slug.owner \o <<"/">> \o slug.repository \o <<"@">> \o tag

\* `${slug.owner}/${slug.repository}`
slug_owner_repo(c) == c.slug.owner \o <<"/">> \o c.slug.repository

\* the candidates of named mode
targetLabelTraditional(c) == c.binaryName.value \o HY \o c.targetTriple
targetLabelDuple(c) == c.binaryName.value \o HY \o c.targetDuple
targetLabelDupleUnderscore(c) ==
    IF Truthy(c.targetDupleUnderscore)
    THEN c.binaryName.value \o US \o c.targetDupleUnderscore.value
    ELSE << >>

\* one field of an asset against the candidates
FieldIsCandidate(c, field) ==
    \/ field = targetLabelTraditional(c)
    \/ field = targetLabelDuple(c)
    \/ (targetLabelDupleUnderscore(c) # << >> /\ field = targetLabelDupleUnderscore(c))

\* the predicate given to assets.find
MutNamedPredicate(c, asset) ==
    isSome(asset.label) /\ FieldIsCandidate(c, asset.label.value)

NamedPredicate(c, asset) ==
    \/ (isSome(asset.label) /\ FieldIsCandidate(c, asset.label.value))
    \/ (isSome(asset.name) /\ FieldIsCandidate(c, asset.name.value))

\* the formats listed by the not-found error of named mode
MutNamedFormats(c) == <<targetLabelTraditional(c), targetLabelDuple(c)>>

NamedFormats(c) ==
    <<targetLabelTraditional(c), targetLabelDuple(c)>> \o
    (IF Truthy(c.targetDupleUnderscore) THEN <<targetLabelDupleUnderscore(c)>> ELSE << >>)

NamedMode(c) ==
    LET assets == c.releaseMetadata
        index == FirstOf({i \in 1..Len(assets) : NamedPredicate(c, assets[i])})
    IN  IF index = 0
        THEN thrown("Error",
                 <<"Expected to find asset in release ">> \o ReleaseText(c.slug, c.tag) \o
                 <<" with label or name ">> \o Join(NamedFormats(c), <<" or ">>))
        ELSE returned([binaryName |-> c.binaryName,
                       url |-> assets[index].url,
                       name |-> NameOrEmpty(assets[index])])

\* the helper endsWithPlatform of unnamed mode
MutEndsWithPlatform(c, name) ==
    LET stem == filenameWithoutExt(name)
    IN  EndsWith(stem, c.targetTriple) \/ EndsWith(stem, c.targetDuple)

endsWithPlatform(c, name) ==
    LET stem == filenameWithoutExt(name)
    IN  \/ EndsWith(stem, c.targetTriple)
        \/ EndsWith(stem, c.targetDuple)
        \/ (Truthy(c.targetDupleUnderscore) /\ EndsWith(stem, c.targetDupleUnderscore.value))

\* the predicate given to assets.filter
UnnamedPredicate(c, asset) ==
    \/ (isSome(asset.label) /\ endsWithPlatform(c, asset.label.value))
    \/ (isSome(asset.name) /\ endsWithPlatform(c, asset.name.value))

\* the formats listed by the errors of unnamed mode
UnnamedFormats(c) ==
    <<c.targetTriple, c.targetDuple>> \o
    (IF Truthy(c.targetDupleUnderscore) THEN <<c.targetDupleUnderscore.value>> ELSE << >>)

\* matchingAssets.length > 1
MutIsAmbiguous(matchingAssets) == Len(matchingAssets) > 2

IsAmbiguous(matchingAssets) == Len(matchingAssets) > 1

\* the field handed to stripTargetTriple: the label when it ends with the triple or the
\* duple, else asset.name! (undefined when the asset has no name)
matchField(c, asset) ==
    IF /\ isSome(asset.label)
       /\ (EndsWith(asset.label.value, c.targetTriple) \/ EndsWith(asset.label.value, c.targetDuple))
    THEN asset.label
    ELSE asset.name

UnnamedMode(c) ==
    LET kept(asset) == UnnamedPredicate(c, asset)
        matchingAssets == SelectSeq(c.releaseMetadata, kept)
        asset == matchingAssets[1]
        field == matchField(c, asset)
    IN  IF Len(matchingAssets) = 0
        THEN thrown("Error",
                 <<"Expected to find asset in release ">> \o ReleaseText(c.slug, c.tag) \o
                 <<" with label or name ">> \o <<"containing platform identifier ">> \o
                 Join(UnnamedFormats(c), <<" or ">>) \o
                 <<" at the end of the filename (before the extension)">>)
        ELSE IF IsAmbiguous(matchingAssets)
        THEN thrown("Error",
                 <<"Ambiguous targets:">> \o
                 <<" expected to find a single asset in release ">> \o
                 ReleaseText(c.slug, c.tag) \o
                 <<" containing platform identifier ">> \o
                 Join(UnnamedFormats(c), <<" or ">>) \o
                 <<" at the end of the filename (before the extension),">> \o
                 <<" but found ">> \o NumberToString(Len(matchingAssets)) \o <<".">> \o
                 <<"\n\nTo resolve, specify the desired binary with the target format ">> \o
                 slug_owner_repo(c) \o <<"/<binary-name>@">> \o c.tag)
        ELSE IF ~isSome(field)
        \* stripTargetTriple(undefined): undefined.replace throws
        THEN thrown("TypeError",
                 <<"Cannot read properties of undefined (reading 'replace')">>)
        ELSE returned([binaryName |-> stripTargetTriple(field.value),
                       url |-> asset.url,
                       name |-> NameOrEmpty(asset)])

findMatchingReleaseAssetMetadata(c) ==
    IF isSome(c.binaryName) THEN NamedMode(c) ELSE UnnamedMode(c)

-----------------------------------------------------------------------------
(* types.ts: the grammar of an exact semantic version,                      *)
(* "v" major "." minor "." patch ["-" prerelease] ["+" build-metadata]      *)

DigitChars == {"0", "1", "2", "3", "4", "5", "6", "7", "8", "9"}

IdentifierChars ==
    DigitChars \cup {"-"} \cup
    {"a", "b", "c", "d", "e", "f", "g", "h", "i", "j", "k", "l", "m",
     "n", "o", "p", "q", "r", "s", "t", "u", "v", "w", "x", "y", "z"} \cup
    {"A", "B", "C", "D", "E", "F", "G", "H", "I", "J", "K", "L", "M",
     "N", "O", "P", "Q", "R", "S", "T", "U", "V", "W", "X", "Y", "Z"}

\* the position of the first ch in text, 0 when there is none
IndexOf(text, ch) ==
    IF \E i \in 1..Len(text) : text[i] = ch
    THEN CHOOSE i \in 1..Len(text) : text[i] = ch /\ \A j \in 1..(i - 1) : text[j] # ch
    ELSE 0

\* text.split(ch)
RECURSIVE Split(_, _)
Split(text, ch) ==
    LET at == IndexOf(text, ch)
    IN  IF at = 0 THEN <<text>>
        ELSE <<SubSeq(text, 1, at - 1)>> \o Split(SubSeq(text, at + 1, Len(text)), ch)

\* dot-separated, non-empty groups of the given characters
DottedGroups(text, chars) ==
    \A part \in Range(Split(text, ".")) :
        Len(part) > 0 /\ \A i \in 1..Len(part) : part[i] \in chars

isExactSemanticVersion(version) ==
    /\ Len(version) > 0
    /\ version[1] = "v"
    /\ LET body == Tail(version)
           plus == IndexOf(body, "+")
           unbuilt == IF plus = 0 THEN body ELSE SubSeq(body, 1, plus - 1)
           dash == IndexOf(unbuilt, "-")
           core == IF dash = 0 THEN unbuilt ELSE SubSeq(unbuilt, 1, dash - 1)
       IN  /\ Len(Split(core, ".")) = 3
           /\ DottedGroups(core, DigitChars)
           /\ dash = 0 \/ DottedGroups(SubSeq(unbuilt, dash + 1, Len(unbuilt)), IdentifierChars)
           /\ plus = 0 \/ DottedGroups(SubSeq(body, plus + 1, Len(body)), IdentifierChars)

\* a semantic version, exact or not: one to three numeric components
isSemanticVersion(version) ==
    /\ Len(version) > 0
    /\ version[1] = "v"
    /\ LET body == Tail(version)
           plus == IndexOf(body, "+")
           unbuilt == IF plus = 0 THEN body ELSE SubSeq(body, 1, plus - 1)
           dash == IndexOf(unbuilt, "-")
           core == IF dash = 0 THEN unbuilt ELSE SubSeq(unbuilt, 1, dash - 1)
       IN  /\ Len(Split(core, ".")) \in 1..3
           /\ DottedGroups(core, DigitChars)
           /\ dash = 0 \/ DottedGroups(SubSeq(unbuilt, dash + 1, Len(unbuilt)), IdentifierChars)
           /\ plus = 0 \/ DottedGroups(SubSeq(body, plus + 1, Len(body)), IdentifierChars)

\* a Sha256Hash: 64 lowercase hexadecimal characters
isSha256Hash(text) ==
    /\ Len(text) = 64
    /\ \A i \in 1..Len(text) : text[i] \in DigitChars \cup {"a", "b", "c", "d", "e", "f"}

-----------------------------------------------------------------------------
(* fetch.ts: semanticVersionTagReducer and findExactSemanticVersionTag *)

\* option.ts: isEqual(option, value)
isEqual(option, value) == isSome(option) /\ option.value = value

\* tags.find(isExactSemanticVersion) of a recorded list; none stands for undefined
MutContainsLastExactTag(versionsBySha, sha) ==
    IF sha \notin DOMAIN versionsBySha THEN none
    ELSE LET tags == versionsBySha[sha]
             exact == {i \in 1..Len(tags) : isExactSemanticVersion(tags[i])}
         IN  IF exact = {} THEN none
             ELSE some(tags[CHOOSE i \in exact : \A j \in exact : j <= i])

MutContainsExactTag(versionsBySha, sha) ==
    IF DOMAIN versionsBySha = {} THEN none
    ELSE some(versionsBySha[CHOOSE s \in DOMAIN versionsBySha : TRUE][1])

containsExactTag(versionsBySha, sha) ==
    IF sha \notin DOMAIN versionsBySha THEN none
    ELSE LET tags == versionsBySha[sha]
             index == FirstOf({i \in 1..Len(tags) : isExactSemanticVersion(tags[i])})
         IN  IF index = 0 THEN none ELSE some(tags[index])

\* the closure a call of semanticVersionTagReducer starts with
NewReducer == [versionsBySha |-> << >>, givenTagSha |-> none]

\* versionsBySha with version recorded under sha
Recorded(versionsBySha, sha, version) ==
    [s \in DOMAIN versionsBySha \cup {sha} |->
        IF s = sha
        THEN (IF sha \in DOMAIN versionsBySha THEN versionsBySha[sha] ELSE << >>) \o <<version>>
        ELSE versionsBySha[s]]

\* reducer(tag): the closure after the call and the Option returned
MutReducer(closure, givenTag, tag) ==
    LET sha == tag.commit.sha
        version == tag.name
        seen == IF version = givenTag
                THEN [closure EXCEPT !.givenTagSha = some(sha)]
                ELSE closure
    IN  IF ~isExactSemanticVersion(version)
        THEN [closure |-> seen, out |-> none]
        ELSE IF isEqual(seen.givenTagSha, sha)
        THEN [closure |-> seen, out |-> some(version)]
        ELSE [closure |-> [seen EXCEPT !.versionsBySha = Recorded(@, sha, version)],
              out |-> none]

\* a reducer that takes every tag beginning with the given tag for the given tag
MutReducerOfPrefix(closure, givenTag, tag) ==
    LET sha == tag.commit.sha
        version == tag.name
        given == Len(givenTag) <= Len(version) /\ SubSeq(version, 1, Len(givenTag)) = givenTag
        seen == IF given THEN [closure EXCEPT !.givenTagSha = some(sha)] ELSE closure
        maybeExactTag == containsExactTag(closure.versionsBySha, sha)
    IN  IF given /\ isSome(maybeExactTag)
        THEN [closure |-> seen, out |-> maybeExactTag]
        ELSE IF ~isExactSemanticVersion(version)
        THEN [closure |-> seen, out |-> none]
        ELSE IF isEqual(seen.givenTagSha, sha)
        THEN [closure |-> seen, out |-> some(version)]
        ELSE [closure |-> [seen EXCEPT !.versionsBySha = Recorded(@, sha, version)],
              out |-> none]

reducer(closure, givenTag, tag) ==
    LET sha == tag.commit.sha
        version == tag.name
        seen == IF version = givenTag
                THEN [closure EXCEPT !.givenTagSha = some(sha)]
                ELSE closure
        maybeExactTag == containsExactTag(closure.versionsBySha, sha)
    IN  IF version = givenTag /\ isSome(maybeExactTag)
        THEN [closure |-> seen, out |-> maybeExactTag]
        ELSE IF ~isExactSemanticVersion(version)
        THEN [closure |-> seen, out |-> none]
        ELSE IF isEqual(seen.givenTagSha, sha)
        THEN [closure |-> seen, out |-> some(version)]
        ELSE [closure |-> [seen EXCEPT !.versionsBySha = Recorded(@, sha, version)],
              out |-> none]

\* the error thrown when the listing is exhausted
NotFoundError(t) ==
    thrown("Error",
        <<"Expected to find an exact semantic version tag matching ">> \o t.target \o
        <<" for ">> \o t.slug.owner \o <<"/">> \o t.slug.repository)

\* for (const tag of response.data): the tags of a page through the reducer, up to the
\* first that yields a result
RECURSIVE FeedTags(_, _, _)
FeedTags(closure, givenTag, tags) ==
    IF Len(tags) = 0 THEN [closure |-> closure, out |-> none]
    ELSE LET step == reducer(closure, givenTag, Head(tags))
         IN  IF isSome(step.out) THEN step
             ELSE FeedTags(step.closure, givenTag, Tail(tags))

\* one call on its own, the whole listing consumed page after page
findExactSemanticVersionTag(t) ==
    IF isExactSemanticVersion(t.target) THEN returned(t.target)
    ELSE LET end == FeedTags(NewReducer, t.target, t.tags)
         IN  IF isSome(end.out) THEN returned(end.out.value) ELSE NotFoundError(t)

\* no resolution under way
ResolverIdle ==
    /\ target = none
    /\ pages = << >>
    /\ page = << >>
    /\ requested = 0
    /\ tagReducer = none
    /\ resolved = none

\* no platform identifier asked for, nothing to parse, no installation under way
PlatformIdle == machine = none /\ identified = none
ParserIdle == input = none /\ parsed = none
InstallerIdle == runs = << >>
BinaryIdle ==
    job = none /\ locals = none /\ effects = << >> /\ outcome = none /\ disk = {}

-----------------------------------------------------------------------------
(* either.ts *)

ok(value) == [tag |-> "ok", value |-> value]

error(errors) == [tag |-> "error", errors |-> errors]

isOk(either) == either.tag = "ok"

isErr(either) == either.tag = "error"

-----------------------------------------------------------------------------
(* parse.ts: parseTargetReleases,                                           *)
(* owner "/" repository ["/" binaryName] "@" tag [":sha256-" checksum]      *)

WhitespaceChars == {" ", "\n", "\t"}

SHA256_PREFIX == <<"s", "h", "a", "2", "5", "6", "-">>

\* the position of the first whitespace character of text, Len(text) + 1 when there is none
FirstWhitespace(text) ==
    IF \E i \in 1..Len(text) : text[i] \in WhitespaceChars
    THEN CHOOSE i \in 1..Len(text) :
             text[i] \in WhitespaceChars /\ \A j \in 1..(i - 1) : text[j] \notin WhitespaceChars
    ELSE Len(text) + 1

\* the tokens of text: trimmed, split on runs of whitespace
RECURSIVE SplitWhitespace(_)
SplitWhitespace(text) ==
    IF Len(text) = 0 THEN << >>
    ELSE IF text[1] \in WhitespaceChars THEN SplitWhitespace(Tail(text))
    ELSE LET stop == FirstWhitespace(text)
         IN  <<SubSeq(text, 1, stop - 1)>> \o SplitWhitespace(SubSeq(text, stop, Len(text)))

\* the diagnostic of a token that is no target
InvalidTarget(token) == <<"Invalid target: ">> \o token

\* one token against the grammar: ok(TargetRelease) or error
MutParseTargetRelease(token) ==
    LET at == IndexOf(token, "@")
        path == SubSeq(token, 1, at - 1)
        tag == SubSeq(token, at + 1, Len(token))
        names == Split(path, "/")
    IN  IF /\ at > 0
           /\ Len(names) \in {2, 3}
           /\ \A i \in 1..Len(names) : Len(names[i]) > 0
        THEN ok([slug |-> [owner |-> names[1], repository |-> names[2]],
                 binaryName |-> IF Len(names) = 3 THEN some(names[3]) ELSE none,
                 tag |-> tag,
                 checksum |-> none])
        ELSE error(<<InvalidTarget(token)>>)

parseTargetRelease(token) ==
    LET at == IndexOf(token, "@")
        path == SubSeq(token, 1, at - 1)
        version == SubSeq(token, at + 1, Len(token))
        colon == IndexOf(version, ":")
        tag == IF colon = 0 THEN version ELSE SubSeq(version, 1, colon - 1)
        hash == SubSeq(version, colon + 1, Len(version))
        checksum == SubSeq(hash, Len(SHA256_PREFIX) + 1, Len(hash))
        names == Split(path, "/")
    IN  IF /\ at > 0
           /\ Len(names) \in {2, 3}
           /\ \A i \in 1..Len(names) : Len(names[i]) > 0
           /\ isSemanticVersion(tag)
           /\ colon = 0 \/
                 (/\ Len(hash) >= Len(SHA256_PREFIX)
                  /\ SubSeq(hash, 1, Len(SHA256_PREFIX)) = SHA256_PREFIX
                  /\ isSha256Hash(checksum))
        THEN ok([slug |-> [owner |-> names[1], repository |-> names[2]],
                 binaryName |-> IF Len(names) = 3 THEN some(names[3]) ELSE none,
                 tag |-> tag,
                 checksum |-> IF colon = 0 THEN none ELSE some(checksum)])
        ELSE error(<<InvalidTarget(token)>>)

\* the whole input: every token is a target, or the parse fails as a whole
MutParseTargetReleases(text) ==
    LET tokens == SplitWhitespace(text)
        good(token) == isOk(parseTargetRelease(token))
        targets == SelectSeq(tokens, good)
    IN  IF Len(targets) = 0 THEN error(<<<<"No targets">>>>)
        ELSE ok([i \in 1..Len(targets) |-> parseTargetRelease(targets[i]).value])

parseTargetReleases(text) ==
    LET tokens == SplitWhitespace(text)
        bad(token) == isErr(parseTargetRelease(token))
        invalid == SelectSeq(tokens, bad)
    IN  IF Len(tokens) = 0 THEN error(<<<<"No targets">>>>)
        ELSE IF Len(invalid) > 0
        THEN error([i \in 1..Len(invalid) |-> InvalidTarget(invalid[i])])
        ELSE ok([i \in 1..Len(tokens) |-> parseTargetRelease(tokens[i]).value])

-----------------------------------------------------------------------------
(* Inputs of stripTargetTriple *)

\* how many platform suffixes an input carries at most
MaxSuffixes == 2

FOO == <<"f", "o", "o">>
WINDOWS == <<"w", "i", "n", "d", "o", "w", "s">>

AllIdentifiers == Range(ALL_TARGET_TRIPLES) \cup Range(TARGET_DUPLES)

BaseNames == {<< >>, FOO, FOO \o HY \o WINDOWS \o HY \o X64}

\* the suffixes an input is extended with: "-" + identifier, "_" + duple
Suffixes ==
    {HY \o id : id \in AllIdentifiers} \cup {US \o id : id \in Range(TARGET_DUPLES)}

\* base followed by the suffixes, in order
RECURSIVE Suffixed(_, _)
Suffixed(base, suffixes) ==
    IF Len(suffixes) = 0 THEN base
    ELSE Suffixed(base \o Head(suffixes), Tail(suffixes))

-----------------------------------------------------------------------------
(* Specification of stripTargetTriple: one call on any input *)

InitStrip ==
    /\ pc = "strip"
    /\ \E k \in 0..MaxSuffixes :
          \E base \in BaseNames \cup AllIdentifiers, suffixes \in [1..k -> Suffixes] :
              stripIn = Suffixed(base, suffixes)
    /\ stripOut = none
    /\ call = none
    /\ ret = none
    /\ ResolverIdle
    /\ PlatformIdle
    /\ ParserIdle
    /\ InstallerIdle
    /\ BinaryIdle

StripTargetTriple ==
    /\ pc = "strip"
    /\ stripOut' = stripTargetTriple(stripIn)
    /\ pc' = "stripped"
    /\ UNCHANGED <<stripIn, matcherVars, resolverVars, platformVars, parserVars, installerVars,
                   binaryVars>>

NextStrip == StripTargetTriple

SpecStrip == InitStrip /\ [][NextStrip]_vars

-----------------------------------------------------------------------------
(* Inputs of getTargetTriple, getTargetDuple and getTargetDupleUnderscore *)

\* values of os.arch(), and the Go name of x64
Architectures ==
    {<<"a", "r", "m">>, ARM64, <<"i", "a", "3", "2">>, <<"p", "p", "c", "6", "4">>,
     <<"r", "i", "s", "c", "v", "6", "4">>, <<"s", "3", "9", "0", "x">>, X64, AMD64}

\* values of os.platform()
Platforms ==
    {<<"a", "i", "x">>, DARWIN, <<"f", "r", "e", "e", "b", "s", "d">>, LINUX,
     <<"w", "i", "n", "3", "2">>}

-----------------------------------------------------------------------------
(* Specification of the platform identifiers: each function called once on  *)
(* any architecture and platform                                           *)

InitPlatform ==
    /\ pc = "identify"
    /\ machine \in [arch : Architectures, platform : Platforms]
    /\ identified = [triple |-> none, duple |-> none, underscore |-> none]
    /\ stripIn = none
    /\ stripOut = none
    /\ call = none
    /\ ret = none
    /\ ResolverIdle
    /\ ParserIdle
    /\ InstallerIdle
    /\ BinaryIdle

GetTargetTriple ==
    /\ pc = "identify"
    /\ identified.triple = none
    /\ identified' =
          [identified EXCEPT !.triple = some(getTargetTriple(machine.arch, machine.platform))]
    /\ UNCHANGED <<pc, machine, stripVars, matcherVars, resolverVars, parserVars, installerVars,
                   binaryVars>>

GetTargetDuple ==
    /\ pc = "identify"
    /\ identified.duple = none
    /\ identified' =
          [identified EXCEPT !.duple = some(getTargetDuple(machine.arch, machine.platform))]
    /\ UNCHANGED <<pc, machine, stripVars, matcherVars, resolverVars, parserVars, installerVars,
                   binaryVars>>

GetTargetDupleUnderscore ==
    /\ pc = "identify"
    /\ identified.underscore = none
    /\ identified' =
          [identified EXCEPT
              !.underscore = some(getTargetDupleUnderscore(machine.arch, machine.platform))]
    /\ UNCHANGED <<pc, machine, stripVars, matcherVars, resolverVars, parserVars, installerVars,
                   binaryVars>>

NextPlatform == GetTargetTriple \/ GetTargetDuple \/ GetTargetDupleUnderscore

SpecPlatform == InitPlatform /\ [][NextPlatform]_vars

-----------------------------------------------------------------------------
(* Inputs of findMatchingReleaseAssetMetadata *)

\* how many assets a release carries at most
MaxAssets == 2

TESTBIN == <<"t", "e", "s", "t", "b", "i", "n">>
OTHERBIN == <<"o", "t", "h", "e", "r", "b", "i", "n">>
DOTZIP == <<".", "z", "i", "p">>
TESTOWNER == <<"t", "e", "s", "t", "o", "w", "n", "e", "r">>
TESTREPO == <<"t", "e", "s", "t", "r", "e", "p", "o">>

\* the machines the release is matched for: os.arch() and os.platform()
Machines == {[arch |-> ARM64, platform |-> DARWIN], [arch |-> X64, platform |-> LINUX]}

TripleOf(m) == getTargetTriple(m.arch, m.platform).value
DupleOf(m) == getTargetDuple(m.arch, m.platform).value
UnderscoreOf(m) == getTargetDupleUnderscore(m.arch, m.platform).value

\* what releases put in the label of an asset
LabelTexts(m) ==
    { TESTBIN \o HY \o TripleOf(m),
      TESTBIN \o HY \o DupleOf(m),
      TESTBIN \o US \o UnderscoreOf(m),
      TESTBIN \o HY \o UnderscoreOf(m),
      OTHERBIN \o HY \o TripleOf(m),
      OTHERBIN \o HY \o DupleOf(m),
      TESTBIN \o HY \o TripleOf(m) \o DOTZIP,
      TESTBIN \o HY \o WINDOWS \o HY \o X64,
      TESTBIN \o HY \o TripleOf(CHOOSE o \in Machines : o # m) \o HY \o TripleOf(m),
      TripleOf(m) }

\* what releases put in the name of an asset that has no label
NameTexts(m) ==
    { TESTBIN \o HY \o TripleOf(m),
      TESTBIN \o HY \o DupleOf(m),
      TESTBIN \o US \o UnderscoreOf(m),
      OTHERBIN \o HY \o TripleOf(m),
      TESTBIN \o HY \o DupleOf(m) \o DOTZIP,
      TESTBIN \o HY \o WINDOWS \o HY \o X64 }

\* assets carrying both fields: <<label, name>>
LabelledNames(m) ==
    { <<TESTBIN \o HY \o WINDOWS \o HY \o X64, TESTBIN \o HY \o TripleOf(m)>>,
      <<TESTBIN \o HY \o TripleOf(m) \o DOTZIP, TESTBIN \o HY \o TripleOf(m) \o DOTZIP>>,
      <<OTHERBIN \o HY \o DupleOf(m), TESTBIN \o HY \o DupleOf(m)>>,
      <<TESTBIN \o HY \o DupleOf(m), TESTBIN \o HY \o TripleOf(m)>>,
      <<TESTBIN \o US \o UnderscoreOf(m), OTHERBIN \o HY \o TripleOf(m)>>,
      << << >>, TESTBIN \o HY \o TripleOf(m)>> }

\* an asset without its url
AssetPool(m) ==
    {[label |-> some(t), name |-> none] : t \in LabelTexts(m)} \cup
    {[label |-> none, name |-> some(t)] : t \in NameTexts(m)} \cup
    {[label |-> some(p[1]), name |-> some(p[2])] : p \in LabelledNames(m)} \cup
    {[label |-> none, name |-> none]}

\* a release does not hold two assets of the same name
DistinctNames(assets) ==
    \A i, j \in 1..Len(assets) :
        (i # j /\ isSome(assets[i].name)) => assets[i].name # assets[j].name

\* the assets of a release, each with its url
Release(pick) ==
    [i \in 1..Len(pick) |->
        [label |-> pick[i].label,
         name |-> pick[i].name,
         url |-> <<"https://example.com/asset/">> \o NumberToString(i)]]

\* the call made on machine m
CallOn(m, assets, binaryName, underscore) ==
    [releaseMetadata |-> assets,
     slug |-> [owner |-> TESTOWNER, repository |-> TESTREPO],
     binaryName |-> binaryName,
     tag |-> <<"v", "1", ".", "0", ".", "0">>,
     targetTriple |-> TripleOf(m),
     targetDuple |-> DupleOf(m),
     targetDupleUnderscore |-> IF underscore THEN some(UnderscoreOf(m)) ELSE none]

-----------------------------------------------------------------------------
(* Specification of findMatchingReleaseAssetMetadata: one call on any release *)

InitAssets ==
    /\ pc = "match"
    /\ \E m \in Machines, n \in 0..MaxAssets :
          \E pick \in [1..n -> AssetPool(m)] :
              /\ DistinctNames(pick)
              /\ \E binaryName \in {none, some(TESTBIN)}, underscore \in BOOLEAN :
                    call = CallOn(m, Release(pick), binaryName, underscore)
    /\ ret = none
    /\ stripIn = none
    /\ stripOut = none
    /\ ResolverIdle
    /\ PlatformIdle
    /\ ParserIdle
    /\ InstallerIdle
    /\ BinaryIdle

FindMatchingReleaseAssetMetadata ==
    /\ pc = "match"
    /\ ret' = findMatchingReleaseAssetMetadata(call)
    /\ pc' = "matched"
    /\ UNCHANGED <<call, stripVars, resolverVars, platformVars, parserVars, installerVars,
                   binaryVars>>

NextAssets == FindMatchingReleaseAssetMetadata

SpecAssets == InitAssets /\ [][NextAssets]_vars

-----------------------------------------------------------------------------
(* Inputs of findExactSemanticVersionTag *)

\* how many tags the repository carries at most
MaxTags == 4

\* per_page of the listTags request
per_page == 100

V1 == <<"v", "1">>
V1_2 == <<"v", "1", ".", "2">>
V1_2_3 == <<"v", "1", ".", "2", ".", "3">>

TagNames ==
    {V1, V1_2, V1_2_3, <<"v", "1", ".", "2", ".", "4">>,
     <<"v", "2", ".", "0", ".", "0", "-", "r", "c", ".", "1">>}
Shas == {"1f3c", "9b0e"}

\* a repository has no two tags of the same name
DistinctTags(list) ==
    \A i, j \in 1..Len(list) : i # j => list[i].name # list[j].name

\* the listing cut into pages of at most size tags; an empty listing is one empty page
RECURSIVE Paginate(_, _)
Paginate(tags, size) ==
    IF Len(tags) <= size THEN <<tags>>
    ELSE <<SubSeq(tags, 1, size)>> \o Paginate(SubSeq(tags, size + 1, Len(tags)), size)

\* the page lengths the listing is served with

-----------------------------------------------------------------------------
(* Specification of findExactSemanticVersionTag: one call, tag by tag *)

InitTags ==
    /\ pc = "resolve"
    /\ \E givenTag \in {V1, V1_2, V1_2_3}, n \in 0..MaxTags, size \in {1, 2, per_page} :
        \E tags \in [1..n -> [name : TagNames, commit : [sha : Shas]]] :
          /\ DistinctTags(tags)
          /\ target = [slug |-> [owner |-> TESTOWNER, repository |-> TESTREPO],
                       target |-> givenTag,
                       tags |-> tags]
          /\ pages = Paginate(tags, size)
    /\ page = << >>
    /\ requested = 0
    /\ tagReducer = NewReducer
    /\ resolved = none
    /\ call = none
    /\ ret = none
    /\ stripIn = none
    /\ stripOut = none
    /\ PlatformIdle
    /\ ParserIdle
    /\ InstallerIdle
    /\ BinaryIdle

\* if (isExactSemanticVersion(target)) return target;
MutReturnExactTarget ==
    /\ pc = "resolve"
    /\ isExactSemanticVersion(target.target)
    /\ requested' = requested + 1
    /\ resolved' = returned(target.target)
    /\ pc' = "resolved"
    /\ UNCHANGED <<target, pages, page, tagReducer, stripVars, matcherVars,
                   platformVars, parserVars, installerVars,
                   binaryVars>>

ReturnExactTarget ==
    /\ pc = "resolve"
    /\ isExactSemanticVersion(target.target)
    /\ resolved' = returned(target.target)
    /\ pc' = "resolved"
    /\ UNCHANGED <<target, pages, page, requested, tagReducer, stripVars, matcherVars,
                   platformVars, parserVars, installerVars,
                   binaryVars>>

\* for await (const response of octokit.paginate.iterator(...)): the next page arrives
NextPage ==
    /\ pc = "resolve"
    /\ ~isExactSemanticVersion(target.target)
    /\ page = << >>
    /\ pages # << >>
    /\ page' = Head(pages)
    /\ pages' = Tail(pages)
    /\ requested' = requested + 1
    /\ UNCHANGED <<pc, target, tagReducer, resolved, stripVars, matcherVars,
                   platformVars, parserVars, installerVars,
                   binaryVars>>

\* for (const tag of response.data): one tag through the reducer
FeedTag ==
    /\ pc = "resolve"
    /\ page # << >>
    /\ LET step == reducer(tagReducer, target.target, Head(page))
       IN  /\ tagReducer' = step.closure
           /\ page' = Tail(page)
           /\ IF isSome(step.out)
              THEN resolved' = returned(step.out.value) /\ pc' = "resolved"
              ELSE UNCHANGED <<resolved, pc>>
    /\ UNCHANGED <<target, pages, requested, stripVars, matcherVars,
                   platformVars, parserVars, installerVars,
                   binaryVars>>

\* the listing is exhausted: throw
Exhausted ==
    /\ pc = "resolve"
    /\ ~isExactSemanticVersion(target.target)
    /\ page = << >>
    /\ pages = << >>
    /\ resolved' = NotFoundError(target)
    /\ pc' = "resolved"
    /\ UNCHANGED <<target, pages, page, requested, tagReducer, stripVars, matcherVars,
                   platformVars, parserVars, installerVars,
                   binaryVars>>

NextTags == ReturnExactTarget \/ NextPage \/ FeedTag \/ Exhausted

SpecTags == InitTags /\ [][NextTags]_vars

-----------------------------------------------------------------------------
(* Inputs of main: the targets installed together *)

\* how many targets are installed together at most
MaxRuns == 2

\* the tags of the repositories the targets name
RunTags == [name : {V1, V1_2_3}, commit : [sha : Shas]]

Listings ==
    {<< >>} \cup {<<a>> : a \in RunTags} \cup
    {pair \in RunTags \X RunTags : pair[1].name # pair[2].name}

\* a target and the tags of its repository; the call of an exact target never asks for
\* the listing, so one tag at most is drawn for it
RunPicks ==
    {pick \in [target : {V1, V1_2_3}, tags : Listings] :
        isExactSemanticVersion(pick.target) => Len(pick.tags) <= 1}

\* the i-th target: a repository of its own with its tags, and the tag asked for
RunOf(i, givenTag, tags, size) ==
    [target |-> [slug |-> [owner |-> TESTOWNER, repository |-> TESTREPO \o NumberToString(i)],
                 target |-> givenTag,
                 tags |-> tags],
     pages |-> Paginate(tags, size),
     tagReducer |-> NewReducer,
     resolved |-> none]

-----------------------------------------------------------------------------
(* Specification of main's Promise.all: the calls of                        *)
(* findExactSemanticVersionTag of all targets, each suspended while it      *)
(* awaits its next page of tags                                            *)

InitInstall ==
    /\ pc = "install"
    /\ \E n \in 1..MaxRuns, size \in {1, per_page} :
          \E picks \in [1..n -> RunPicks] :
              runs = [i \in 1..n |-> RunOf(i, picks[i].target, picks[i].tags, size)]
    /\ stripIn = none
    /\ stripOut = none
    /\ call = none
    /\ ret = none
    /\ ResolverIdle
    /\ PlatformIdle
    /\ ParserIdle
    /\ BinaryIdle

\* if (isExactSemanticVersion(target)) return target;
ReturnExactTargetOf(i) ==
    /\ pc = "install"
    /\ runs[i].resolved = none
    /\ isExactSemanticVersion(runs[i].target.target)
    /\ runs' = [runs EXCEPT ![i].resolved = some(returned(runs[i].target.target))]
    /\ UNCHANGED <<pc, stripVars, matcherVars, resolverVars, platformVars, parserVars,
                   binaryVars>>

\* the next page of the i-th call arrives and its tags go through the call's reducer
MutConsumePageOf(i) ==
    /\ pc = "install"
    /\ runs[i].resolved = none
    /\ ~isExactSemanticVersion(runs[i].target.target)
    /\ runs[i].pages # << >>
    /\ LET end == FeedTags(runs[i].tagReducer, runs[i].target.target, Head(runs[i].pages))
       IN  runs' = [j \in 1..Len(runs) |->
                       IF j = i
                       THEN [runs[i] EXCEPT
                                !.pages = Tail(@),
                                !.tagReducer = end.closure,
                                !.resolved = IF isSome(end.out)
                                             THEN some(returned(end.out.value))
                                             ELSE none]
                       ELSE [runs[j] EXCEPT !.tagReducer = end.closure]]
    /\ UNCHANGED <<pc, stripVars, matcherVars, resolverVars, platformVars, parserVars,
                   binaryVars>>

ConsumePageOf(i) ==
    /\ pc = "install"
    /\ runs[i].resolved = none
    /\ ~isExactSemanticVersion(runs[i].target.target)
    /\ runs[i].pages # << >>
    /\ LET end == FeedTags(runs[i].tagReducer, runs[i].target.target, Head(runs[i].pages))
       IN  runs' = [runs EXCEPT
                       ![i].pages = Tail(@),
                       ![i].tagReducer = end.closure,
                       ![i].resolved = IF isSome(end.out)
                                       THEN some(returned(end.out.value))
                                       ELSE none]
    /\ UNCHANGED <<pc, stripVars, matcherVars, resolverVars, platformVars, parserVars,
                   binaryVars>>

\* the listing of the i-th call is exhausted: throw
ExhaustedOf(i) ==
    /\ pc = "install"
    /\ runs[i].resolved = none
    /\ ~isExactSemanticVersion(runs[i].target.target)
    /\ runs[i].pages = << >>
    /\ runs' = [runs EXCEPT ![i].resolved = some(NotFoundError(runs[i].target))]
    /\ UNCHANGED <<pc, stripVars, matcherVars, resolverVars, platformVars, parserVars,
                   binaryVars>>

NextInstall ==
    \/ \E i \in 1..Len(runs) : ReturnExactTargetOf(i)
    \/ \E i \in 1..Len(runs) : ConsumePageOf(i)
    \/ \E i \in 1..Len(runs) : ExhaustedOf(i)

SpecInstall == InitInstall /\ [][NextInstall]_vars

-----------------------------------------------------------------------------
(* Inputs of parseTargetReleases *)

\* how many tokens the input carries at most
MaxTargets == 2

BAR == <<"b", "a", "r">>
QUX == <<"q", "u", "x">>
BAZ == <<"b", "a", "z">>
OWNER == <<"o", "w", "n", "e", "r">>
REPOSITORY == <<"r", "e", "p", "o", "s", "i", "t", "o", "r", "y">>
BINARY_NAME == <<"b", "i", "n", "a", "r", "y", "-", "n", "a", "m", "e">>
V2_3_4 == <<"v", "2", ".", "3", ".", "4">>
V1_2_3_RC_1_BUILD_456 == <<"v", "1", ".", "2", ".", "3", "-", "r", "c", ".", "1", "+", "b", "u", "i", "l", "d", ".", "4", "5", "6">>
CHECKSUM ==
    <<"8", "a", "4", "6", "0", "0", "b", "e", "9", "6", "d", "2", "e", "c", "0", "1",
      "3", "2", "0", "9", "0", "4", "2", "4", "5", "8", "c", "e", "9", "7", "a", "9",
      "6", "5", "2", "f", "c", "c", "4", "6", "c", "1", "c", "8", "5", "5", "d", "0",
      "2", "1", "7", "a", "a", "4", "2", "e", "3", "3", "0", "f", "c", "0", "6", "e">>

\* "foo/bar@v1", "qux/baz@v2.3.4", "owner/repository/binary-name@v1",
\* "owner/repository/binary-name@v1:sha256-8a46...", "foo/bar@v1.2.3-rc.1+build.456"
WellFormedTokens ==
    { FOO \o <<"/">> \o BAR \o <<"@">> \o V1,
      QUX \o <<"/">> \o BAZ \o <<"@">> \o V2_3_4,
      OWNER \o <<"/">> \o REPOSITORY \o <<"/">> \o BINARY_NAME \o <<"@">> \o V1,
      OWNER \o <<"/">> \o REPOSITORY \o <<"/">> \o BINARY_NAME \o <<"@">> \o V1 \o
          <<":">> \o SHA256_PREFIX \o CHECKSUM,
      FOO \o <<"/">> \o BAR \o <<"@">> \o V1_2_3_RC_1_BUILD_456 }

\* "foo/bar", "foo/bar@1", "foo@v1", "foo/bar@v1.2.3.4", "foo/bar@v1:sha256-8a46"
MalformedTokens ==
    { FOO \o <<"/">> \o BAR,
      FOO \o <<"/">> \o BAR \o <<"@", "1">>,
      FOO \o <<"@">> \o V1,
      FOO \o <<"/">> \o BAR \o <<"@">> \o <<"v", "1", ".", "2", ".", "3", ".", "4">>,
      FOO \o <<"/">> \o BAR \o <<"@">> \o V1 \o <<":">> \o SHA256_PREFIX \o
          SubSeq(CHECKSUM, 1, 4) }

\* the whitespace between two tokens, and around the input
Margins == {<< >>, <<" ", " ", "\n", " ">>}

\* the tokens, each followed by the separator of the same position but the last
RECURSIVE Spaced(_, _)
Spaced(tokens, separators) ==
    IF Len(tokens) = 0 THEN << >>
    ELSE IF Len(tokens) = 1 THEN tokens[1]
    ELSE tokens[1] \o separators[1] \o Spaced(Tail(tokens), Tail(separators))

-----------------------------------------------------------------------------
(* Specification of parseTargetReleases: one call on any input *)

InitParse ==
    /\ pc = "parse"
    /\ \E n \in 0..MaxTargets, leading \in Margins, trailing \in Margins :
          \E tokens \in [1..n -> WellFormedTokens \cup MalformedTokens],
             separators \in [1..n -> {<<" ">>, <<"\n">>, <<" ", "\n", " ", " ">>}] :
              input = leading \o Spaced(tokens, separators) \o trailing
    /\ parsed = none
    /\ stripIn = none
    /\ stripOut = none
    /\ call = none
    /\ ret = none
    /\ ResolverIdle
    /\ PlatformIdle
    /\ InstallerIdle
    /\ BinaryIdle

\* const maybeTargetReleases = parseTargetReleases(core.getInput("targets"));
ParseTargetReleases ==
    /\ pc = "parse"
    /\ parsed' = parseTargetReleases(input)
    /\ pc' = "parsed"
    /\ UNCHANGED <<input, stripVars, matcherVars, resolverVars, platformVars, installerVars,
                   binaryVars>>

NextParse == ParseTargetReleases

SpecParse == InitParse /\ [][NextParse]_vars

-----------------------------------------------------------------------------
(* main.ts: installGitHubReleaseBinary, one target installed on one machine *)

\* String.prototype.toLowerCase
toLowerCase(text) ==
    LET upper == <<"A", "B", "C", "D", "E", "F", "G", "H", "I", "J", "K", "L", "M",
                   "N", "O", "P", "Q", "R", "S", "T", "U", "V", "W", "X", "Y", "Z">>
        lower == <<"a", "b", "c", "d", "e", "f", "g", "h", "i", "j", "k", "l", "m",
                   "n", "o", "p", "q", "r", "s", "t", "u", "v", "w", "x", "y", "z">>
    IN  [i \in 1..Len(text) |->
            IF IndexOf(upper, text[i]) = 0 THEN text[i]
            ELSE lower[IndexOf(upper, text[i])]]

\* path.join on segments that hold no separator and no dot segment: the empty ones are
\* skipped, the others joined with "/"
pathJoin(segments) ==
    LET filled(segment) == segment # << >>
    IN  Join(SelectSeq(segments, filled), <<"/">>)

\* filename.toLowerCase().endsWith('.zip')
isZipFile(filename) == EndsWith(toLowerCase(filename), DOTZIP)

getDestinationDirectory(storageDirectory, slug, tag, platform, architecture) ==
    pathJoin(<<storageDirectory, toLowerCase(slug.owner), toLowerCase(slug.repository), tag,
               platform \o HY \o architecture>>)

\* unwrapOrDefault of option.ts
unwrapOrDefault(option, default) == IF isSome(option) THEN option.value ELSE default

\* one operation on the file system, on the network or on PATH
effect(op, path) == [op |-> op, path |-> path]

\* fs.readdirSync(path) on the files given: the names of the entries of the directory,
\* in the order of their bytes
readdirSync(files, path) ==
    LET names == {f.name : f \in {g \in files : g.directory = path}}
        bytes == <<"+", "-", ".", "/", "0", "1", "2", "3", "4", "5", "6", "7", "8", "9",
                   "A", "B", "C", "D", "E", "F", "G", "H", "I", "J", "K", "L", "M",
                   "N", "O", "P", "Q", "R", "S", "T", "U", "V", "W", "X", "Y", "Z", "_",
                   "a", "b", "c", "d", "e", "f", "g", "h", "i", "j", "k", "l", "m",
                   "n", "o", "p", "q", "r", "s", "t", "u", "v", "w", "x", "y", "z">>
        before(a, b) ==
            \E k \in 1..(Len(a) + 1) :
                /\ \A i \in 1..(k - 1) : i <= Len(b) /\ a[i] = b[i]
                /\ IF k > Len(a) THEN k <= Len(b)
                   ELSE k <= Len(b) /\ IndexOf(bytes, a[k]) < IndexOf(bytes, b[k])
        RECURSIVE sorted(_)
        sorted(rest) ==
            IF rest = {} THEN << >>
            ELSE LET first == CHOOSE a \in rest : \A b \in rest \ {a} : before(a, b)
                 IN  <<first>> \o sorted(rest \ {first})
    IN  sorted(names)

\* extractedFiles.filter(file => !file.startsWith('.') &&
\*     !fs.statSync(path.join(extractedDirectory, file)).isDirectory())
visibleFiles(files, extractedDirectory, extractedFiles) ==
    LET visible(file) ==
            /\ ~(Len(file) > 0 /\ file[1] = ".")
            /\ [directory |-> extractedDirectory, name |-> file, isDirectory |-> TRUE]
                   \notin files
    IN  SelectSeq(extractedFiles, visible)

\* throw new Error(`Unexpected checksum for ${target}`), the slug of the target printed as
\* an object is
UnexpectedChecksum(targetRelease) ==
    thrown("Error",
        <<"Unexpected checksum for ">> \o <<"[object Object]">> \o <<"@">> \o
        targetRelease.tag \o <<":sha256-">> \o targetRelease.checksum.value)

NotOneBinary(files) ==
    thrown("Error",
        <<"Expected exactly one binary in the zip archive, but found ">> \o
        NumberToString(Len(files)) \o <<" files: ">> \o Join(files, <<", ">>))

\* the end of the function, for a plain binary and for an extracted one alike
MakeExecutable ==
    <<effect("chmodSync", locals.finalBinaryPath),
      effect("addPath", locals.destinationDirectory)>>

\* the target identifiers, then the wait for the exact tag
AwaitReleaseTag ==
    /\ pc = "install binary"
    /\ LET targetTriple == getTargetTriple(job.arch, job.platform)
           targetDuple == getTargetDuple(job.arch, job.platform)
           targetDupleUnderscore == getTargetDupleUnderscore(job.arch, job.platform)
           releaseTag == findExactSemanticVersionTag(
                             [slug |-> job.targetRelease.slug,
                              target |-> job.targetRelease.tag,
                              tags |-> job.tags])
           failure == IF ~targetTriple.ok THEN some(targetTriple)
                      ELSE IF ~targetDuple.ok THEN some(targetDuple)
                      ELSE IF ~targetDupleUnderscore.ok THEN some(targetDupleUnderscore)
                      ELSE IF ~releaseTag.ok THEN some(releaseTag)
                      ELSE none
       IN  IF isSome(failure)
           THEN /\ pc' = "settled"
                /\ outcome' = failure
                /\ locals' = locals
           ELSE /\ pc' = "release asset"
                /\ outcome' = outcome
                /\ locals' = [targetTriple |-> targetTriple.value,
                              targetDuple |-> targetDuple.value,
                              targetDupleUnderscore |-> targetDupleUnderscore.value,
                              releaseTag |-> releaseTag.value]
    /\ UNCHANGED <<job, effects, disk, stripVars, matcherVars, resolverVars, platformVars,
                   parserVars, installerVars>>

\* the constants of the function once the release asset is known
Located(releaseAsset) ==
    LET destinationDirectory ==
            getDestinationDirectory(job.storageDirectory, job.targetRelease.slug,
                                    locals.releaseTag, job.platform, job.arch)
        destinationBasename ==
            unwrapOrDefault(releaseAsset.binaryName, job.targetRelease.slug.repository)
    IN  [releaseTag |-> locals.releaseTag,
         destinationDirectory |-> destinationDirectory,
         releaseAsset |-> releaseAsset,
         destinationBasename |-> destinationBasename,
         assetName |-> releaseAsset.name,
         isZip |-> isZipFile(releaseAsset.name),
         destinationFilename |->
             IF isZipFile(releaseAsset.name)
             THEN pathJoin(<<destinationDirectory, destinationBasename \o DOTZIP>>)
             ELSE pathJoin(<<destinationDirectory, destinationBasename>>),
         finalBinaryPath |-> pathJoin(<<destinationDirectory, destinationBasename>>)]

\* await fetchReleaseAssetMetadataFromTag(...)
FetchedReleaseAsset ==
    findMatchingReleaseAssetMetadata(
        [releaseMetadata |-> job.releaseMetadata,
         slug |-> job.targetRelease.slug,
         binaryName |-> job.targetRelease.binaryName,
         tag |-> locals.releaseTag,
         targetTriple |-> locals.targetTriple,
         targetDuple |-> locals.targetDuple,
         targetDupleUnderscore |-> some(locals.targetDupleUnderscore)])

\* the release asset is known: fs.existsSync(finalBinaryPath) with ignoreExisting leaves
\* everything as it is but PATH
MutAwaitReleaseAsset ==
    /\ pc = "release asset"
    /\ LET releaseAsset == FetchedReleaseAsset
       IN  IF ~releaseAsset.ok
           THEN /\ pc' = "settled"
                /\ outcome' = some(releaseAsset)
                /\ UNCHANGED <<locals, effects, disk>>
           ELSE /\ locals' = Located(releaseAsset.value)
                \* fs.existsSync(finalBinaryPath)
                /\ disk' = IF job.exists
                           THEN {[directory |-> locals'.destinationDirectory,
                                  name |-> locals'.destinationBasename,
                                  isDirectory |-> FALSE]}
                           ELSE {}
                /\ IF job.exists
                   THEN /\ pc' = "settled"
                        /\ outcome' = some(returned("undefined"))
                        /\ effects' = effects \o
                               <<effect("mkdirSync", locals'.destinationDirectory),
                                 effect("addPath", locals'.destinationDirectory)>>
                   ELSE /\ pc' = "download"
                        /\ outcome' = outcome
                        /\ effects' = effects \o
                               <<effect("mkdirSync", locals'.destinationDirectory)>>
    /\ UNCHANGED <<job, stripVars, matcherVars, resolverVars, platformVars, parserVars,
                   installerVars>>

AwaitReleaseAsset ==
    /\ pc = "release asset"
    /\ LET releaseAsset == FetchedReleaseAsset
       IN  IF ~releaseAsset.ok
           THEN /\ pc' = "settled"
                /\ outcome' = some(releaseAsset)
                /\ UNCHANGED <<locals, effects, disk>>
           ELSE /\ locals' = Located(releaseAsset.value)
                \* fs.existsSync(finalBinaryPath)
                /\ disk' = IF job.exists
                           THEN {[directory |-> locals'.destinationDirectory,
                                  name |-> locals'.destinationBasename,
                                  isDirectory |-> FALSE]}
                           ELSE {}
                /\ IF job.exists /\ job.ignoreExisting
                   THEN /\ pc' = "settled"
                        /\ outcome' = some(returned("undefined"))
                        /\ effects' = effects \o
                               <<effect("mkdirSync", locals'.destinationDirectory),
                                 effect("addPath", locals'.destinationDirectory)>>
                   ELSE /\ pc' = "download"
                        /\ outcome' = outcome
                        /\ effects' = effects \o
                               <<effect("mkdirSync", locals'.destinationDirectory)>>
    /\ UNCHANGED <<job, stripVars, matcherVars, resolverVars, platformVars, parserVars,
                   installerVars>>

\* tc.downloadTool has settled, with the file at the destination it was given: the
\* checksum of the file, then, for a plain binary, the end of the function
MutAwaitDownloadTool ==
    /\ pc = "download"
    /\ LET downloadTool == effect("downloadTool", locals.destinationFilename)
           digest == effect("digest", locals.destinationFilename)
           checksum == job.targetRelease.checksum
           written == [directory |-> locals.destinationDirectory,
                       name |-> IF locals.isZip THEN locals.destinationBasename \o DOTZIP
                                ELSE locals.destinationBasename,
                       isDirectory |-> FALSE]
       IN  IF ~job.download.ok
           THEN /\ pc' = "settled"
                /\ outcome' = some(job.download)
                /\ effects' = effects \o <<downloadTool>>
                /\ disk' = disk
           ELSE /\ disk' = disk \cup {written}
                /\ IF locals.isZip
                   THEN /\ pc' = "extract"
                        /\ outcome' = outcome
                        /\ effects' = effects \o <<downloadTool>>
                   ELSE IF isSome(checksum) /\ job.download.value # checksum.value
                   THEN /\ pc' = "settled"
                        /\ outcome' = some(UnexpectedChecksum(job.targetRelease))
                        /\ effects' = effects \o <<downloadTool>> \o MakeExecutable \o
                                      <<digest>>
                   ELSE /\ pc' = "settled"
                        /\ outcome' = some(returned("undefined"))
                        /\ effects' = effects \o <<downloadTool>> \o MakeExecutable \o
                                      (IF isSome(checksum) THEN <<digest>> ELSE << >>)
    /\ UNCHANGED <<job, locals, stripVars, matcherVars, resolverVars, platformVars,
                   parserVars, installerVars>>

AwaitDownloadTool ==
    /\ pc = "download"
    /\ LET downloadTool == effect("downloadTool", locals.destinationFilename)
           digest == effect("digest", locals.destinationFilename)
           checksum == job.targetRelease.checksum
           verified == effects \o <<downloadTool>> \o
                       (IF isSome(checksum) THEN <<digest>> ELSE << >>)
           \* the file tc.downloadTool writes at destinationFilename
           written == [directory |-> locals.destinationDirectory,
                       name |-> IF locals.isZip THEN locals.destinationBasename \o DOTZIP
                                ELSE locals.destinationBasename,
                       isDirectory |-> FALSE]
       IN  IF ~job.download.ok
           THEN /\ pc' = "settled"
                /\ outcome' = some(job.download)
                /\ effects' = effects \o <<downloadTool>>
                /\ disk' = disk
           ELSE /\ disk' = disk \cup {written}
                /\ IF isSome(checksum) /\ job.download.value # checksum.value
                   THEN /\ pc' = "settled"
                        /\ outcome' = some(UnexpectedChecksum(job.targetRelease))
                        /\ effects' = verified
                   ELSE IF locals.isZip
                   THEN /\ pc' = "extract"
                        /\ outcome' = outcome
                        /\ effects' = verified
                   ELSE /\ pc' = "settled"
                        /\ outcome' = some(returned("undefined"))
                        /\ effects' = verified \o MakeExecutable
    /\ UNCHANGED <<job, locals, stripVars, matcherVars, resolverVars, platformVars,
                   parserVars, installerVars>>

\* tc.extractZip has settled, the files of the archive being in the directory it
\* resolves to: the one visible file of that directory becomes the binary, the
\* directory is removed when it is not the destination, and the archive is unlinked
AwaitExtractZip ==
    /\ pc = "extract"
    /\ LET extractZip == effect("extractZip", locals.destinationFilename)
           extractedDirectory == IF isSome(job.extractedDirectory)
                                 THEN job.extractedDirectory.value
                                 ELSE locals.destinationDirectory
           extracted == disk \cup
                        {[directory |-> extractedDirectory, name |-> f.name,
                          isDirectory |-> f.isDirectory] : f \in job.archive}
           extractedFiles == readdirSync(extracted, extractedDirectory)
           files == visibleFiles(extracted, extractedDirectory, extractedFiles)
           binary == [directory |-> locals.destinationDirectory,
                      name |-> locals.destinationBasename,
                      isDirectory |-> FALSE]
           downloaded == [directory |-> locals.destinationDirectory,
                          name |-> locals.destinationBasename \o DOTZIP,
                          isDirectory |-> FALSE]
           \* fs.renameSync(path.join(extractedDirectory, binaryName), finalBinaryPath)
           renamed == (extracted \ {[directory |-> extractedDirectory, name |-> files[1],
                                     isDirectory |-> FALSE]}) \cup {binary}
           \* fs.rmSync(extractedDirectory, { recursive: true, force: true })
           removed == IF extractedDirectory # locals.destinationDirectory
                      THEN {f \in renamed : f.directory # extractedDirectory}
                      ELSE renamed
           done == effects \o
                   <<extractZip,
                     effect("renameSync", pathJoin(<<extractedDirectory, files[1]>>))>> \o
                   (IF extractedDirectory # locals.destinationDirectory
                    THEN <<effect("rmSync", extractedDirectory)>> ELSE << >>) \o
                   <<effect("unlinkSync", locals.destinationFilename)>>
       IN  IF Len(files) # 1
           THEN /\ pc' = "settled"
                /\ outcome' = some(NotOneBinary(files))
                /\ effects' = effects \o <<extractZip>>
                /\ disk' = extracted
           ELSE IF downloaded \notin removed
           \* fs.unlinkSync(downloadedFilePath) of a file that is no longer there
           THEN /\ pc' = "settled"
                /\ outcome' = some(thrown("Error",
                                   <<"ENOENT: no such file or directory, unlink '">> \o
                                   locals.destinationFilename \o <<"'">>))
                /\ effects' = done
                /\ disk' = removed
           ELSE /\ pc' = "settled"
                /\ outcome' = some(returned("undefined"))
                /\ effects' = done \o MakeExecutable
                /\ disk' = removed \ {downloaded}
    /\ UNCHANGED <<job, locals, stripVars, matcherVars, resolverVars, platformVars,
                   parserVars, installerVars>>

-----------------------------------------------------------------------------
(* Specification of installGitHubReleaseBinary: one call *)

InitBinary ==
    /\ pc = "install binary"
    /\ \E m \in Machines, binaryName \in {none, some(TESTBIN)}, tag \in {V1, V1_2_3},
          checksum \in {none, some(CHECKSUM)}, ignoreExisting \in BOOLEAN, exists \in BOOLEAN :
          \E \* the tags of the repository: none, or v1 on the commit of v1.2.3
             tags \in {<< >>,
                       <<[name |-> V1_2_3, commit |-> [sha |-> "1f3c"]],
                         [name |-> V1, commit |-> [sha |-> "1f3c"]]>>},
             \* the release: no asset, a plain binary, an archive labelled as the binary,
             \* an archive
             assets \in {<< >>,
                         <<[label |-> none, name |-> some(TESTBIN \o HY \o TripleOf(m))]>>,
                         <<[label |-> some(TESTBIN \o HY \o TripleOf(m)),
                            name |-> some(TESTBIN \o HY \o TripleOf(m) \o DOTZIP)]>>,
                         <<[label |-> none,
                            name |-> some(TESTBIN \o HY \o DupleOf(m) \o DOTZIP)]>>},
             \* what tc.downloadTool settles with: the digest of the file written, the
             \* expected one or another, or the error of the request
             download \in {returned(CHECKSUM),
                           returned([CHECKSUM EXCEPT ![1] = "9"]),
                           thrown("HTTPError", <<"Unexpected HTTP response: 404">>)},
             \* the entries of the archive
             archive \in
                 {{},
                  {[name |-> TESTBIN, isDirectory |-> FALSE]},
                  {[name |-> <<".", "k", "e", "e", "p">>, isDirectory |-> FALSE],
                   [name |-> TESTBIN, isDirectory |-> FALSE],
                   [name |-> <<"d", "o", "c", "s">>, isDirectory |-> TRUE]},
                  {[name |-> TESTBIN, isDirectory |-> FALSE],
                   [name |-> OTHERBIN, isDirectory |-> FALSE]}},
             \* the directory tc.extractZip resolves to: the destination it was given,
             \* or another
             extractedDirectory \in {none, some(<<"/tmp/extracted">>)} :
              job = [targetRelease |->
                         [slug |-> [owner |-> TESTOWNER, repository |-> TESTREPO],
                          binaryName |-> binaryName, tag |-> tag, checksum |-> checksum],
                     storageDirectory |-> <<"/home/runner/.install-github-release-binary/bin">>,
                     ignoreExisting |-> ignoreExisting,
                     arch |-> m.arch,
                     platform |-> m.platform,
                     tags |-> tags,
                     releaseMetadata |-> Release(assets),
                     exists |-> exists,
                     download |-> download,
                     archive |-> archive,
                     extractedDirectory |-> extractedDirectory]
    /\ locals = none
    /\ disk = {}
    /\ effects = << >>
    /\ outcome = none
    /\ stripIn = none
    /\ stripOut = none
    /\ call = none
    /\ ret = none
    /\ ResolverIdle
    /\ PlatformIdle
    /\ ParserIdle
    /\ InstallerIdle

NextBinary ==
    \/ AwaitReleaseTag
    \/ AwaitReleaseAsset
    \/ AwaitDownloadTool
    \/ AwaitExtractZip

SpecBinary == InitBinary /\ [][NextBinary]_vars

-----------------------------------------------------------------------------
(* C1: for a reference R that is not an exact version and a tag list that   *)
(* holds R on commit S and exactly one exact-version tag E on the same       *)
(* commit S, the resolution yields E, whether R comes before E or E before  *)
(* R, whatever other tags are interleaved.                                  *)
Reference == target.target
TagsOf == target.tags

\* the positions of the exact-version tags on the commit of the tag at position r
ExactOnCommitOf(r) ==
    {e \in 1..Len(TagsOf) :
        /\ isExactSemanticVersion(TagsOf[e].name)
        /\ TagsOf[e].commit.sha = TagsOf[r].commit.sha}

C1_OrderIndependentResolution ==
    (pc = "resolved" /\ ~isExactSemanticVersion(Reference)) =>
        \A r \in 1..Len(TagsOf) :
            (TagsOf[r].name = Reference /\ Cardinality(ExactOnCommitOf(r)) = 1) =>
                \A e \in ExactOnCommitOf(r) : resolved = returned(TagsOf[e].name)

\* the exact tag came first, with another tag between it and the reference
C1_Witness ==
    /\ pc = "resolved"
    /\ ~isExactSemanticVersion(Reference)
    /\ \E r \in 1..Len(TagsOf) :
          /\ TagsOf[r].name = Reference
          /\ Cardinality(ExactOnCommitOf(r)) = 1
          /\ \E e \in ExactOnCommitOf(r) : e + 1 < r /\ resolved = returned(TagsOf[e].name)

-----------------------------------------------------------------------------
(* Vocabulary of the claims about the asset matcher, stated on the call *)

Assets == call.releaseMetadata
Named == isSome(call.binaryName)

\* the strings an asset carries
FieldsOf(asset) ==
    (IF isSome(asset.label) THEN {asset.label.value} ELSE {}) \cup
    (IF isSome(asset.name) THEN {asset.name.value} ELSE {})

\* "<name>-<triple>", "<name>-<duple>" and, when supplied, "<name>_<underscoreDuple>"
TripleCandidate == call.binaryName.value \o <<"-">> \o call.targetTriple
DupleCandidate == call.binaryName.value \o <<"-">> \o call.targetDuple
UnderscoreCandidate == call.binaryName.value \o <<"_">> \o call.targetDupleUnderscore.value
Candidates ==
    {TripleCandidate, DupleCandidate} \cup
    (IF isSome(call.targetDupleUnderscore) THEN {UnderscoreCandidate} ELSE {})

\* the platform identifiers of the call
PlatformIds ==
    {call.targetTriple, call.targetDuple} \cup
    (IF isSome(call.targetDupleUnderscore) THEN {call.targetDupleUnderscore.value} ELSE {})

\* text with a final "." + extension removed
WithoutExtension(text) ==
    IF \E k \in 1..(Len(text) - 1) : text[k] = "." /\ \A j \in (k + 1)..Len(text) : text[j] # "."
    THEN SubSeq(text, 1,
             (CHOOSE k \in 1..(Len(text) - 1) :
                  text[k] = "." /\ \A j \in (k + 1)..Len(text) : text[j] # ".") - 1)
    ELSE text

\* the assets that match the request, by position
MatchingNamed == {i \in 1..Len(Assets) : FieldsOf(Assets[i]) \cap Candidates # {}}
MatchingUnnamed ==
    {i \in 1..Len(Assets) :
        \E f \in FieldsOf(Assets[i]), id \in PlatformIds : EndsWith(WithoutExtension(f), id)}
Matching == IF Named THEN MatchingNamed ELSE MatchingUnnamed

StartsWith(text, prefix) ==
    Len(prefix) <= Len(text) /\ SubSeq(text, 1, Len(prefix)) = prefix

Contains(text, part) ==
    \E k \in 0..(Len(text) - Len(part)) : SubSeq(text, k + 1, k + Len(part)) = part

ReleaseName == call.slug.owner \o <<"/">> \o call.slug.repository \o <<"@">> \o call.tag

-----------------------------------------------------------------------------
(* C2 as stated: in named mode as well as in unnamed mode, whenever more    *)
(* than one asset matches the request the matcher fails instead of          *)
(* returning one of the matching assets.                                   *)
C2_NeverPicksAmongSeveral ==
    (pc = "matched" /\ Cardinality(Matching) > 1) => ~ret.ok

(* C2 as amended: in unnamed mode more than one matching asset makes the    *)
(* matcher fail; in named mode it does not fail, it returns one of the      *)
(* matching assets.                                                        *)
C2_AmbiguityRejectedInUnnamedModeOnly ==
    (pc = "matched" /\ Cardinality(Matching) > 1) =>
        IF Named
        THEN ret.ok /\ \E i \in Matching : ret.value.url = Assets[i].url
        ELSE ~ret.ok

C2_Witness ==
    /\ pc = "matched"
    /\ ~Named
    /\ Cardinality(Matching) > 1
    /\ ~ret.ok

(* C3: in unnamed mode, two or more assets whose label or name ends (final  *)
(* extension removed) with the triple, the duple or the supplied underscore *)
(* duple make the matcher fail with a message that starts with              *)
(* "Ambiguous targets:", states the number of matching assets and names     *)
(* the owner/repo/<binary-name>@tag form.                                  *)
C3_AmbiguousTargets ==
    (pc = "matched" /\ ~Named /\ Cardinality(MatchingUnnamed) >= 2) =>
        /\ ~ret.ok
        /\ StartsWith(ret.message, <<"Ambiguous targets:">>)
        /\ Contains(ret.message,
               <<" but found ">> \o NumberToString(Cardinality(MatchingUnnamed)) \o <<".">>)
        /\ Contains(ret.message,
               call.slug.owner \o <<"/">> \o call.slug.repository \o
               <<"/<binary-name>@">> \o call.tag)

\* one asset matches by the triple and another only by the underscore duple
C3_Witness ==
    /\ pc = "matched"
    /\ ~Named
    /\ ~ret.ok
    /\ \E i, j \in MatchingUnnamed :
          /\ i # j
          /\ \E f \in FieldsOf(Assets[i]) : EndsWith(f, call.targetTriple)
          /\ \A f \in FieldsOf(Assets[j]) :
                \A id \in {call.targetTriple, call.targetDuple} :
                    ~EndsWith(WithoutExtension(f), id)

(* C4: in named mode, when the release has both an asset named              *)
(* "<name>-<triple>" and an asset named "<name>-<duple>", the url returned  *)
(* is that of the triple-named asset, for every order of the assets.        *)
TripleNamed == {i \in 1..Len(Assets) : TripleCandidate \in FieldsOf(Assets[i])}
DupleNamed == {i \in 1..Len(Assets) : DupleCandidate \in FieldsOf(Assets[i])}

C4_TripleBeforeDuple ==
    (pc = "matched" /\ Named /\ TripleNamed # {} /\ DupleNamed # {}) =>
        ret.ok /\ \E i \in TripleNamed : ret.value.url = Assets[i].url

(* C5: in named mode the matcher succeeds if and only if some asset has a   *)
(* label or a name equal to a candidate; on success the url is the url of   *)
(* such an asset and binaryName is the requested name unchanged.            *)
C5_NamedMatchIsExact ==
    (pc = "matched" /\ Named) =>
        /\ ret.ok <=> MatchingNamed # {}
        /\ ret.ok =>
              /\ \E i \in MatchingNamed : ret.value.url = Assets[i].url
              /\ ret.value.binaryName = call.binaryName

\* success through an asset that only has a name, equal to the underscore candidate
C5_Witness ==
    /\ pc = "matched"
    /\ Named
    /\ ret.ok
    /\ isSome(call.targetDupleUnderscore)
    /\ \A i \in MatchingNamed :
          ~isSome(Assets[i].label) /\ Assets[i].name = some(UnderscoreCandidate)

(* C6: in named mode with no matching asset the matcher fails with          *)
(* "Expected to find asset in release {owner}/{repo}@{tag} with label or    *)
(* name {f1} or {f2}[ or {f3}]", listing the two or three candidates.       *)
C6_NamedNotFoundMessage ==
    (pc = "matched" /\ Named /\ MatchingNamed = {}) =>
        /\ ~ret.ok
        /\ ret.message =
              <<"Expected to find asset in release ">> \o ReleaseName \o
              <<" with label or name ">> \o TripleCandidate \o <<" or ">> \o DupleCandidate \o
              (IF isSome(call.targetDupleUnderscore)
               THEN <<" or ">> \o UnderscoreCandidate
               ELSE << >>)

C6_Witness ==
    /\ pc = "matched"
    /\ Named
    /\ MatchingNamed = {}
    /\ Len(Assets) > 0
    /\ isSome(call.targetDupleUnderscore)
    /\ ~ret.ok

(* C7: in unnamed mode with no matching asset and no underscore duple the   *)
(* matcher fails with exactly "Expected to find asset in release            *)
(* {owner}/{repo}@{tag} with label or name ending in {triple} or {duple}".  *)
C7_UnnamedNotFoundMessage ==
    (pc = "matched" /\ ~Named /\ MatchingUnnamed = {} /\ ~isSome(call.targetDupleUnderscore)) =>
        /\ ~ret.ok
        /\ ret.message =
              <<"Expected to find asset in release ">> \o ReleaseName \o
              <<" with label or name ">> \o <<"ending in ">> \o
              call.targetTriple \o <<" or ">> \o call.targetDuple

(* C8: in unnamed mode, when exactly one asset matches and its matching     *)
(* field (label, or name when it has no label) is "<name>-<triple>" or      *)
(* "<name>-<duple>", the matcher returns that asset's url and binaryName    *)
(* some(<name>).                                                           *)
C8_DefaultBinaryName ==
    (pc = "matched" /\ ~Named /\ Cardinality(MatchingUnnamed) = 1) =>
        LET asset == Assets[CHOOSE i \in MatchingUnnamed : TRUE]
            field == IF isSome(asset.label) THEN asset.label.value ELSE asset.name.value
        IN  \A id \in {call.targetTriple, call.targetDuple} :
                EndsWith(field, <<"-">> \o id) =>
                    /\ ret.ok
                    /\ ret.value.url = asset.url
                    /\ ret.value.binaryName = some(DropLast(field, Len(id) + 1))

-----------------------------------------------------------------------------
(* C9: for every name, every enumerated triple t and duple d,               *)
(* stripTargetTriple(name-t) = some(name), stripTargetTriple(name-d) =      *)
(* some(name) for hyphen duples and stripTargetTriple(name_d) = some(name)  *)
(* for underscore duples.                                                  *)

HyphenDuples == {TARGET_DUPLES[i] : i \in 1..4}
UnderscoreDuples == {TARGET_DUPLES[i] : i \in 5..8}

RecoversName(value, sep, id, out) ==
    EndsWith(value, sep \o id) => out = some(DropLast(value, Len(id) + 1))

C9_StripRecoversName ==
    pc = "stripped" =>
        /\ \A t \in Range(ALL_TARGET_TRIPLES) : RecoversName(stripIn, HY, t, stripOut)
        /\ \A d \in HyphenDuples : RecoversName(stripIn, HY, d, stripOut)
        /\ \A d \in UnderscoreDuples : RecoversName(stripIn, US, d, stripOut)

(* C10: stripTargetTriple returns none exactly for the inputs that are      *)
(* themselves an enumerated triple or duple, and some(...) for every other. *)
C10_NoneIffIdentifier ==
    pc = "stripped" => (stripOut = none <=> stripIn \in AllIdentifiers)

C10_Witness ==
    /\ pc = "stripped"
    /\ stripIn \in Range(TARGET_DUPLES)
    /\ stripOut = none

-----------------------------------------------------------------------------
(* C11: getTargetDuple and getTargetDupleUnderscore return a duple only     *)
(* when the operating system is darwin or linux and the architecture is     *)
(* arm64 or x64/amd64; for any other architecture or operating system they  *)
(* throw an unsupported-platform error.                                    *)
SupportedMachine ==
    /\ machine.platform \in {DARWIN, LINUX}
    /\ machine.arch \in {ARM64, X64, AMD64}

C11_UnsupportedMachineFails ==
    pc = "identify" =>
        \A duple \in {identified.duple, identified.underscore} :
            isSome(duple) =>
                /\ duple.value.ok <=> SupportedMachine
                /\ ~duple.value.ok => StartsWith(duple.value.message, <<"Unsupported platform ">>)

-----------------------------------------------------------------------------
(* Vocabulary of the claims about the parser, stated on the input text *)

Blank == {" ", "\n", "\t"}

\* where the whitespace-separated tokens of text begin, and where the one begun at i ends
WordStarts(text) ==
    {i \in 1..Len(text) : text[i] \notin Blank /\ (i = 1 \/ text[i - 1] \in Blank)}
WordEnd(text, i) ==
    CHOOSE j \in i..Len(text) :
        (j = Len(text) \/ text[j + 1] \in Blank) /\ \A k \in i..j : text[k] \notin Blank

\* the tokens of text, in the order of the text
Words(text) ==
    LET starts == WordStarts(text)
    IN  [k \in 1..Cardinality(starts) |->
            LET i == CHOOSE i \in starts : Cardinality({j \in starts : j < i}) = k - 1
            IN  SubSeq(text, i, WordEnd(text, i))]

\* how often ch occurs in text
Occurrences(text, ch) == Cardinality({i \in 1..Len(text) : text[i] = ch})

\* the record each well-formed token stands for
TargetOf(token) ==
    CASE token = FOO \o <<"/">> \o BAR \o <<"@">> \o V1 ->
            [slug |-> [owner |-> FOO, repository |-> BAR],
             binaryName |-> none, tag |-> V1, checksum |-> none]
      [] token = QUX \o <<"/">> \o BAZ \o <<"@">> \o V2_3_4 ->
            [slug |-> [owner |-> QUX, repository |-> BAZ],
             binaryName |-> none, tag |-> V2_3_4, checksum |-> none]
      [] token = OWNER \o <<"/">> \o REPOSITORY \o <<"/">> \o BINARY_NAME \o <<"@">> \o V1 ->
            [slug |-> [owner |-> OWNER, repository |-> REPOSITORY],
             binaryName |-> some(BINARY_NAME), tag |-> V1, checksum |-> none]
      [] token = OWNER \o <<"/">> \o REPOSITORY \o <<"/">> \o BINARY_NAME \o <<"@">> \o V1 \o
                 <<":">> \o SHA256_PREFIX \o CHECKSUM ->
            [slug |-> [owner |-> OWNER, repository |-> REPOSITORY],
             binaryName |-> some(BINARY_NAME), tag |-> V1, checksum |-> some(CHECKSUM)]
      [] token = FOO \o <<"/">> \o BAR \o <<"@">> \o V1_2_3_RC_1_BUILD_456 ->
            [slug |-> [owner |-> FOO, repository |-> BAR],
             binaryName |-> none, tag |-> V1_2_3_RC_1_BUILD_456, checksum |-> none]

(* C12: parsing is atomic: an input without tokens, or with at least one    *)
(* token that is no owner/repo[/binary]@vTAG[:sha256-<64 hex>], makes       *)
(* parseTargetReleases return an error with at least one diagnostic and no  *)
(* target record, also when other tokens are well-formed; a success never   *)
(* holds fewer records than the input has tokens.                          *)
C12_ParsingIsAtomic ==
    pc = "parsed" =>
        LET words == Words(input)
        IN  /\ (Len(words) = 0 \/ \E k \in 1..Len(words) : words[k] \in MalformedTokens) =>
                  /\ isErr(parsed)
                  /\ Len(parsed.errors) >= 1
                  /\ "value" \notin DOMAIN parsed
            /\ isOk(parsed) => Len(parsed.value) = Len(words)

\* a well-formed token next to a malformed one
C12_Witness ==
    /\ pc = "parsed"
    /\ \E k \in 1..Len(Words(input)) : Words(input)[k] \in WellFormedTokens
    /\ \E k \in 1..Len(Words(input)) : Words(input)[k] \in MalformedTokens
    /\ isErr(parsed)

(* C13: an input of n >= 1 well-formed tokens, separated by runs of spaces  *)
(* and newlines, with or without whitespace around, parses to exactly n     *)
(* records, the i-th built from the i-th token, binaryName absent iff the   *)
(* token has no /binary segment and checksum absent iff it has no :sha256-  *)
(* part.                                                                   *)
C13_OneRecordPerToken ==
    pc = "parsed" =>
        LET words == Words(input)
        IN  (Len(words) >= 1 /\ \A k \in 1..Len(words) : words[k] \in WellFormedTokens) =>
                /\ isOk(parsed)
                /\ Len(parsed.value) = Len(words)
                /\ \A k \in 1..Len(words) :
                      /\ parsed.value[k] = TargetOf(words[k])
                      /\ parsed.value[k].binaryName = none <=> Occurrences(words[k], "/") = 1
                      /\ parsed.value[k].checksum = none <=>
                            ~Contains(words[k], <<":">> \o SHA256_PREFIX)

\* two different tokens after leading whitespace, the second with binary name and checksum
C13_Witness ==
    /\ pc = "parsed"
    /\ Len(input) > 0
    /\ input[1] \in Blank
    /\ isOk(parsed)
    /\ Len(parsed.value) = 2
    /\ parsed.value[1].checksum = none
    /\ parsed.value[2].checksum = some(CHECKSUM)
    /\ parsed.value[2].binaryName = some(BINARY_NAME)

-----------------------------------------------------------------------------
(* C14: when the reference is not an exact version and no exact tag of the  *)
(* listing shares a commit with the reference's tag, or the listing does    *)
(* not hold the reference's tag, findExactSemanticVersionTag ends with an   *)
(* error that names the reference and owner/repository; it returns no tag.  *)
C14_ExhaustedListingFails ==
    (/\ pc = "resolved"
     /\ ~isExactSemanticVersion(Reference)
     /\ \A r \in 1..Len(TagsOf) : TagsOf[r].name = Reference => ExactOnCommitOf(r) = {}) =>
        /\ ~resolved.ok
        /\ Contains(resolved.message, Reference)
        /\ Contains(resolved.message,
               target.slug.owner \o <<"/">> \o target.slug.repository)

\* the reference's tag comes after exact tags that sit on another commit
C14_Witness ==
    /\ pc = "resolved"
    /\ ~isExactSemanticVersion(Reference)
    /\ ~resolved.ok
    /\ \E r \in 2..Len(TagsOf) :
          /\ TagsOf[r].name = Reference
          /\ ExactOnCommitOf(r) = {}
          /\ \E e \in 1..(r - 1) : isExactSemanticVersion(TagsOf[e].name)

(* C15: when the reference already is an exact semantic version,           *)
(* findExactSemanticVersionTag returns that reference and requests no page  *)
(* of the tag listing, whatever the listing holds, also when it does not    *)
(* hold the reference's tag.                                               *)
C15_ExactReferenceNeedsNoListing ==
    isExactSemanticVersion(Reference) =>
        /\ requested = 0
        /\ pc = "resolved" => resolved = returned(Reference)

\* the listing has tags, none of them the reference
C15_Witness ==
    /\ pc = "resolved"
    /\ isExactSemanticVersion(Reference)
    /\ Len(TagsOf) > 1
    /\ \A r \in 1..Len(TagsOf) : TagsOf[r].name # Reference
    /\ resolved = returned(Reference)
    /\ requested = 0

-----------------------------------------------------------------------------
(* C17: the resolutions that the installer runs together, one per target,   *)
(* interleaved where a call awaits a page of tags, are isolated: each call  *)
(* has its own accumulator, which holds what the call's own pages put       *)
(* there, and in every interleaving each target gets the result of its      *)
(* resolution run alone.                                                   *)

\* the tags of the pages the i-th call has consumed
RECURSIVE PagedTags(_)
PagedTags(list) == IF Len(list) = 0 THEN 0 ELSE Len(Head(list)) + PagedTags(Tail(list))
ConsumedBy(i) == SubSeq(runs[i].target.tags, 1, Len(runs[i].target.tags) - PagedTags(runs[i].pages))

C17_ResolutionsAreIsolated ==
    pc = "install" =>
        \A i \in 1..Len(runs) :
            IF isSome(runs[i].resolved)
            THEN runs[i].resolved.value = findExactSemanticVersionTag(runs[i].target)
            ELSE runs[i].tagReducer =
                     FeedTags(NewReducer, runs[i].target.target, ConsumedBy(i)).closure

\* two calls for the same reference, one resolved and one failed, while the failed one's
\* listing holds an exact tag on the commit of the other's reference
C17_Witness ==
    /\ pc = "install"
    /\ \E i, j \in 1..Len(runs) :
          /\ i # j
          /\ runs[i].target.target = runs[j].target.target
          /\ isSome(runs[i].resolved) /\ runs[i].resolved.value.ok
          /\ isSome(runs[j].resolved) /\ ~runs[j].resolved.value.ok
          /\ \E r \in 1..Len(runs[i].target.tags), e \in 1..Len(runs[j].target.tags) :
                /\ runs[i].target.tags[r].name = runs[i].target.target
                /\ isExactSemanticVersion(runs[j].target.tags[e].name)
                /\ runs[j].target.tags[e].commit.sha = runs[i].target.tags[r].commit.sha

-----------------------------------------------------------------------------
(* C18: stripTargetTriple removes at most one platform suffix: the first    *)
(* enumerated triple, else the first enumerated duple, that is a literal    *)
(* suffix of the input after "-" (for a duple after "-" or "_") is removed  *)
(* and nothing more, also when what remains ends with another enumerated    *)
(* identifier.                                                             *)
TripleSuffixes ==
    {i \in 1..Len(ALL_TARGET_TRIPLES) : EndsWith(stripIn, <<"-">> \o ALL_TARGET_TRIPLES[i])}
DupleSuffixes ==
    {i \in 1..Len(TARGET_DUPLES) :
        \/ EndsWith(stripIn, <<"-">> \o TARGET_DUPLES[i])
        \/ EndsWith(stripIn, <<"_">> \o TARGET_DUPLES[i])}
Least(positions) == CHOOSE i \in positions : \A j \in positions : i <= j

C18_StripsOneSuffix ==
    (pc = "stripped" /\ stripIn \notin AllIdentifiers) =>
        IF TripleSuffixes # {}
        THEN stripOut =
                 some(DropLast(stripIn, Len(ALL_TARGET_TRIPLES[Least(TripleSuffixes)]) + 1))
        ELSE IF DupleSuffixes # {}
        THEN stripOut = some(DropLast(stripIn, Len(TARGET_DUPLES[Least(DupleSuffixes)]) + 1))
        ELSE stripOut = some(stripIn)

-----------------------------------------------------------------------------
(* C19: in unnamed mode with exactly one matching asset the default binary  *)
(* name comes from the field that produced the match, label preferred:      *)
(* when the asset's label ends (file extension removed or not) with the     *)
(* triple, the duple or the underscore duple, the name is                   *)
(* stripTargetTriple(label); the name field is used only when the label     *)
(* did not match.                                                          *)
LabelMatched(asset) ==
    /\ isSome(asset.label)
    /\ \E id \in PlatformIds : EndsWith(WithoutExtension(asset.label.value), id)

C19_LabelPreferred ==
    (pc = "matched" /\ ~Named /\ Cardinality(MatchingUnnamed) = 1) =>
        LET asset == Assets[CHOOSE i \in MatchingUnnamed : TRUE]
        IN  /\ ret.ok
            /\ ret.value.binaryName =
                  stripTargetTriple(IF LabelMatched(asset)
                                    THEN asset.label.value
                                    ELSE asset.name.value)

-----------------------------------------------------------------------------
(* C20: a tag that is neither the reference nor an exact version is ignored *)
(* by the reducer: feeding it yields no result and leaves the known sha of  *)
(* the reference and the map from sha to exact versions as they were, so    *)
(* the resolution ends as it does on the listing without such tags.         *)
Ignorable(tag) == tag.name # Reference /\ ~isExactSemanticVersion(tag.name)

\* the target with the ignorable tags taken out of its listing
WithoutIgnorable ==
    LET kept(tag) == ~Ignorable(tag)
    IN  [target EXCEPT !.tags = SelectSeq(TagsOf, kept)]

C20_IgnorableTagsChangeNothing ==
    [][/\ (pc = "resolve" /\ page # << >> /\ Ignorable(Head(page))) =>
              /\ tagReducer' = tagReducer
              /\ resolved' = none
              /\ pc' = "resolve"
       /\ pc' = "resolved" => resolved' = findExactSemanticVersionTag(WithoutIgnorable)]_vars

\* an ignorable tag was fed between the exact tag and the reference's tag
C20_Witness ==
    /\ pc = "resolved"
    /\ ~isExactSemanticVersion(Reference)
    /\ resolved.ok
    /\ \E e, g, r \in 1..Len(TagsOf) :
          /\ e < g /\ g < r
          /\ Ignorable(TagsOf[g])
          /\ TagsOf[r].name = Reference
          /\ resolved = returned(TagsOf[e].name)

-----------------------------------------------------------------------------
(* C21: soundness of the resolution: whenever the reducer yields an exact   *)
(* tag E for the reference R, E is an exact version and the tags consumed   *)
(* so far hold a tag named R and a tag named E on the same commit; when     *)
(* several exact tags sit on that commit, E is the earliest of them in the  *)
(* listing.                                                                *)

\* the tags fed to the reducer so far
Consumed == SubSeq(TagsOf, 1, Len(TagsOf) - Len(page) - PagedTags(pages))

C21_ResolutionIsSound ==
    (pc = "resolved" /\ ~isExactSemanticVersion(Reference) /\ resolved.ok) =>
        /\ isExactSemanticVersion(resolved.value)
        /\ \E r, e \in 1..Len(Consumed) :
              /\ Consumed[r].name = Reference
              /\ Consumed[e].name = resolved.value
              /\ Consumed[e].commit.sha = Consumed[r].commit.sha
              /\ \A k \in 1..Len(TagsOf) :
                    (/\ isExactSemanticVersion(TagsOf[k].name)
                     /\ TagsOf[k].commit.sha = Consumed[r].commit.sha) => e <= k

\* two exact tags on the reference's commit came before the reference's tag
C21_Witness ==
    /\ pc = "resolved"
    /\ ~isExactSemanticVersion(Reference)
    /\ resolved.ok
    /\ \E e, k, r \in 1..Len(Consumed) :
          /\ e < k /\ k < r
          /\ Consumed[r].name = Reference
          /\ isExactSemanticVersion(Consumed[e].name)
          /\ isExactSemanticVersion(Consumed[k].name)
          /\ Consumed[e].commit.sha = Consumed[r].commit.sha
          /\ Consumed[k].commit.sha = Consumed[r].commit.sha
          /\ resolved = returned(Consumed[e].name)

-----------------------------------------------------------------------------
(* Vocabulary of the claims on installGitHubReleaseBinary *)

\* the operations made so far, in order
Operations == [i \in 1..Len(effects) |-> effects[i].op]

Performed(op) == \E i \in 1..Len(effects) : effects[i].op = op

\* the file was downloaded and its digest is not the one the target expects
ChecksumMismatch ==
    /\ isSome(job.targetRelease.checksum)
    /\ job.download.ok
    /\ job.download.value # job.targetRelease.checksum.value

-----------------------------------------------------------------------------
(* C22: for a target that specifies a checksum, once the file is downloaded  *)
(* the binary is made executable and its directory added to PATH only after  *)
(* the digest of the downloaded file was taken and found equal to the        *)
(* expected checksum; on a mismatch the install fails with the "Unexpected   *)
(* checksum" error and performs neither the chmod nor the addPath.           *)
C22_ChecksumBeforeExecutable ==
    (isSome(job.targetRelease.checksum) /\ Performed("downloadTool")) =>
        /\ \A i \in 1..Len(effects) :
              effects[i].op \in {"chmodSync", "addPath"} =>
                  /\ \E k \in 1..(i - 1) : effects[k].op = "digest"
                  /\ ~ChecksumMismatch
        /\ (pc = "settled" /\ ChecksumMismatch) =>
              /\ isSome(outcome)
              /\ ~outcome.value.ok
              /\ Head(outcome.value.message) = "Unexpected checksum for "
              /\ ~Performed("chmodSync")
              /\ ~Performed("addPath")

\* a plain binary of another digest than expected was downloaded and the install failed
C22_Witness ==
    /\ pc = "settled"
    /\ job # none
    /\ ChecksumMismatch
    /\ Operations = <<"mkdirSync", "downloadTool", "digest">>
    /\ ~locals.isZip
    /\ isSome(outcome)
    /\ ~outcome.value.ok

-----------------------------------------------------------------------------
(* C23: when a file exists at the final binary path, with ignore-existing    *)
(* the install makes no download, no checksum verification, no extraction    *)
(* and no chmod, and ends returned with the destination directory added to   *)
(* PATH; without ignore-existing it goes on to the download and, when the    *)
(* download succeeds, takes the digest exactly when a checksum is given.     *)
C23_ExistingBinary ==
    (job.exists /\ Performed("mkdirSync")) =>
        IF job.ignoreExisting
        THEN /\ ~Performed("downloadTool")
             /\ ~Performed("digest")
             /\ ~Performed("extractZip")
             /\ ~Performed("chmodSync")
             /\ pc = "settled"
             /\ effects = <<effect("mkdirSync", locals.destinationDirectory),
                            effect("addPath", locals.destinationDirectory)>>
             /\ outcome = some(returned("undefined"))
        ELSE /\ pc # "download" => Performed("downloadTool")
             /\ pc # "download" =>
                   (Performed("digest") <=>
                       (job.download.ok /\ isSome(job.targetRelease.checksum)))
             /\ (pc = "settled" /\ job.download.ok /\ ~ChecksumMismatch /\ ~locals.isZip) =>
                   /\ Performed("chmodSync")
                   /\ Performed("addPath")

\* the binary was there and ignore-existing set: the install ended on the PATH entry
C23_Witness ==
    /\ pc = "settled"
    /\ job # none
    /\ job.exists
    /\ job.ignoreExisting
    /\ isSome(job.targetRelease.checksum)
    /\ Operations = <<"mkdirSync", "addPath">>
    /\ outcome = some(returned("undefined"))

====
